---- MODULE Spec2Model ----
(***************************************************************************)
(* Model of the Zabbix host creator backend (src/app.py): the ZabbixAPI    *)
(* client, its session token, and the JSON-RPC requests it issues.         *)
(*                                                                         *)
(* Python values are modelled as follows.  A str that the code processes   *)
(* character by character (an address, a host name, a port) is a sequence  *)
(* of one-character strings; an opaque str (a token, an id, a method name) *)
(* is a TLA+ string; a dict is a function whose DOMAIN is its key set, so  *)
(* that d['k'] on a missing key is a KeyError; an f-string is a record of  *)
(* its template and of the values it interpolates.                         *)
(***************************************************************************)
EXTENDS Integers, Sequences, FiniteSets, TLC

VARIABLES
    auth_token,   \* ZabbixAPI.auth_token (app.py:50)
    pc,           \* "idle": no client call in progress; "returned": a call has ended
    op,           \* the client method called last, with its arguments
    calls,        \* the JSON-RPC exchanges of that call, in order: request and response
    ret           \* how that call ended: a returned value or a raised exception

vars == <<auth_token, pc, op, calls, ret>>

-----------------------------------------------------------------------------
(* Bounds of the model *)

\* Longest address list handed to create_multiple_hosts.
MaxAddrs == 2

\* Most hosts in one host.get listing.
MaxHosts == 2

\* Most interfaces, over all hosts, in one host.get listing.
MaxIfaces == 2

-----------------------------------------------------------------------------
(* Python values *)

None == "None"

\* Python's not-x for the session token: None and the empty str are falsy.
TokenFalsy(t) == t = None \/ t = ""

Digit(d) == CASE d = 0 -> "0" [] d = 1 -> "1" [] d = 2 -> "2" [] d = 3 -> "3"
              [] d = 4 -> "4" [] d = 5 -> "5" [] d = 6 -> "6" [] d = 7 -> "7"
              [] d = 8 -> "8" [] d = 9 -> "9"

\* str(n) for a non-negative int: its decimal digits.
RECURSIVE StrOfInt(_)
StrOfInt(n) == IF n < 10 THEN <<Digit(n)>>
               ELSE StrOfInt(n \div 10) \o <<Digit(n % 10)>>

\* f"{i:02d}": the decimal digits, padded with zeros on the left to width 2.
Format02dUnpadded(i) == StrOfInt(i)

RECURSIVE ZeroPad(_, _)
ZeroPad(s, width) == IF Len(s) >= width THEN s ELSE ZeroPad(<<"0">> \o s, width)

Format02d(i) == ZeroPad(StrOfInt(i), 2)

\* The characters str.strip() removes.
Whitespace == {" ", "\t", "\n"}

RECURSIVE LStrip(_)
LStrip(s) == IF s # <<>> /\ Head(s) \in Whitespace THEN LStrip(Tail(s)) ELSE s

RECURSIVE RStrip(_)
RStrip(s) == IF s # <<>> /\ s[Len(s)] \in Whitespace
             THEN RStrip(SubSeq(s, 1, Len(s) - 1)) ELSE s

\* str.strip()
Strip(s) == RStrip(LStrip(s))

\* A port argument: None, a str or an int (the request layer hands over what the
\* JSON body held).
NoPort == [t |-> "none"]
StrPort(s) == [t |-> "str", v |-> s]
IntPort(n) == [t |-> "int", v |-> n]

\* Python truthiness of a port argument.
PortTruthy(p) == CASE p.t = "none" -> FALSE
                   [] p.t = "str" -> p.v # <<>>
                   [] p.t = "int" -> p.v # 0

\* str(port)
PortStr(p) == IF p.t = "int" THEN StrOfInt(p.v) ELSE p.v

-----------------------------------------------------------------------------
(* The remote side: what requests.post can give back *)

\* requests.post raised (timeout after 30 s, connection error), or the body of a
\* 200 response was no JSON and response.json() raised.
Timeout == [raised |-> TRUE]

\* A response with a status other than 200.
HttpError == [raised |-> FALSE, status_code |-> 500]

\* A 200 response with JSON body b.
Ok(b) == [raised |-> FALSE, status_code |-> 200, json |-> b]

\* A JSON-RPC error object as Zabbix sends it.
RpcError == [code |-> "-32602", message |-> "Invalid params.", data |-> "remote detail"]

ErrorBody == Ok([error |-> RpcError])

Failures == {Timeout, HttpError, ErrorBody}

Tokens == {"token-a"}

LoginResponses == Failures \cup {Ok([result |-> t]) : t \in Tokens}

-----------------------------------------------------------------------------
(* The client.  A method takes the client state st = [token, calls] and the  *)
(* responses its requests will receive, and gives the state after it and its *)
(* outcome: the value it returns or the exception it raises.                 *)

Returned(v) == [raised |-> FALSE, value |-> v]
Raised(e) == [raised |-> TRUE, exc |-> e]

End(st, r) == [token |-> st.token, calls |-> st.calls, ret |-> r]

\* requests.post(self.zabbix_api_url, json=payload, ...), answered by resp.
Post(st, payload, resp) ==
    [st EXCEPT !.calls = Append(@, [request |-> payload, response |-> resp])]

\* ZabbixAPI.authenticate: the token is assigned on a 200 response that carries a
\* result and nowhere else.
authenticate_retrying(st, resp) ==
    LET payload == [method |-> "user.login",
                    params |-> [username |-> "zabbix_user", password |-> "zabbix_password"],
                    id |-> 1]
        st1 == Post(st, payload, resp)
    IN  IF ~resp.raised /\ resp.status_code = 200 /\ "result" \in DOMAIN resp.json
        THEN End([st1 EXCEPT !.token = resp.json.result], Returned(TRUE))
        ELSE End(Post(st1, payload, resp), Returned(FALSE))

authenticate_clearing(st, resp) ==
    LET payload == [method |-> "user.login",
                    params |-> [username |-> "zabbix_user", password |-> "zabbix_password"],
                    id |-> 1]
        st1 == Post(st, payload, resp)
    IN  IF ~resp.raised /\ resp.status_code = 200 /\ "result" \in DOMAIN resp.json
        THEN End([st1 EXCEPT !.token = resp.json.result], Returned(TRUE))
        ELSE End([st1 EXCEPT !.token = None], Returned(FALSE))

authenticate(st, resp) ==
    LET payload == [method |-> "user.login",
                    params |-> [username |-> "zabbix_user", password |-> "zabbix_password"],
                    id |-> 1]
        st1 == Post(st, payload, resp)
    IN  IF resp.raised THEN End(st1, Returned(FALSE))
        ELSE IF resp.status_code = 200
             THEN IF "result" \in DOMAIN resp.json
                  THEN End([st1 EXCEPT !.token = resp.json.result], Returned(TRUE))
                  ELSE End(st1, Returned(FALSE))
             ELSE End(st1, Returned(FALSE))

\* "if not self.auth_token: if not self.authenticate(): return ...": the login a
\* method makes on entry when it holds no token.
ensure_token_never(st, login) == End(st, Returned(TRUE))

ensure_token_always(st, login) == authenticate(st, login)

ensure_token(st, login) ==
    IF TokenFalsy(st.token) THEN authenticate(st, login) ELSE End(st, Returned(TRUE))

\* default_ports.get(interface_type, "10050")
DefaultPortAgent == 10050
DefaultPortSNMP == 161
DefaultPortIPMI == 623
DefaultPortJMX == 12345

default_ports(interface_type) ==
    CASE interface_type = 1 -> StrOfInt(DefaultPortAgent)
      [] interface_type = 2 -> StrOfInt(DefaultPortSNMP)
      [] interface_type = 3 -> StrOfInt(DefaultPortIPMI)
      [] interface_type = 4 -> StrOfInt(DefaultPortJMX)
      [] OTHER -> StrOfInt(DefaultPortAgent)

\* interface_type_names.get(interface_type, "Unknown")
interface_type_names_agent(interface_type) == "Agent"

interface_type_names(interface_type) ==
    CASE interface_type = 1 -> "Agent"
      [] interface_type = 2 -> "SNMP"
      [] interface_type = 3 -> "IPMI"
      [] interface_type = 4 -> "JMX"
      [] OTHER -> "Unknown"

\* port = interface_port if interface_port else default_ports.get(...), then str(port)
create_host_port_default(interface_type, interface_port) == default_ports(interface_type)

create_host_port(interface_type, interface_port) ==
    IF PortTruthy(interface_port) THEN PortStr(interface_port)
    ELSE default_ports(interface_type)

SnmpDetails == [version |-> "2", bulk |-> "1", community |-> "public"]
CredentialDetails == [username |-> "", password |-> ""]

\* The interface dict of create_host, with its details block for SNMP, IPMI and JMX.
create_host_interface(ip_address, interface_type, interface_port) ==
    LET interface == [type |-> interface_type, main |-> 1, useip |-> 1,
                      ip |-> ip_address, dns |-> "",
                      port |-> create_host_port(interface_type, interface_port)]
    IN  IF interface_type = 2 THEN interface @@ [details |-> SnmpDetails]
        ELSE IF interface_type = 3 THEN interface @@ [details |-> CredentialDetails]
        ELSE IF interface_type = 4 THEN interface @@ [details |-> CredentialDetails]
        ELSE interface

create_host_payload_twice(token, hostname, ip_address, group_id, interface_type, interface_port) ==
    [method |-> "host.create",
     params |-> [host |-> hostname, name |-> hostname,
                 groups |-> <<[groupid |-> group_id]>>,
                 interfaces |-> <<create_host_interface(ip_address, interface_type,
                                                        interface_port),
                                  create_host_interface(ip_address, interface_type,
                                                        interface_port)>>],
     auth |-> token,
     id |-> 3]

create_host_payload(token, hostname, ip_address, group_id, interface_type, interface_port) ==
    [method |-> "host.create",
     params |-> [host |-> hostname, name |-> hostname,
                 groups |-> <<[groupid |-> group_id]>>,
                 interfaces |-> <<create_host_interface(ip_address, interface_type,
                                                        interface_port)>>],
     auth |-> token,
     id |-> 3]

\* The (success, message) create_host returns for a response to host.create.
create_host_result(hostname, interface_type, resp) ==
    IF resp.raised
    THEN <<FALSE, [fmt |-> "Exception creating host {hostname}: {str(e)}",
                   hostname |-> hostname, e |-> "transport"]>>
    ELSE IF resp.status_code = 200
         THEN IF "result" \in DOMAIN resp.json
              THEN IF /\ "hostids" \in DOMAIN resp.json.result
                      /\ Len(resp.json.result.hostids) > 0
                   THEN <<TRUE, [fmt |-> "Host {hostname} created successfully with {interface_name} interface",
                                 hostname |-> hostname,
                                 interface_name |-> interface_type_names(interface_type)]>>
                   ELSE <<FALSE, [fmt |-> "Exception creating host {hostname}: {str(e)}",
                                  hostname |-> hostname, e |-> "KeyError"]>>
              ELSE <<FALSE, [fmt |-> "Error creating host {hostname}: {error_msg}",
                             hostname |-> hostname,
                             error_msg |-> IF /\ "error" \in DOMAIN resp.json
                                              /\ "data" \in DOMAIN resp.json.error
                                           THEN resp.json.error.data
                                           ELSE "Unknown error"]>>
         ELSE <<FALSE, [fmt |-> "HTTP error creating host {hostname}",
                        hostname |-> hostname]>>

AuthenticationFailed == <<FALSE, [fmt |-> "Authentication failed"]>>

\* ZabbixAPI.create_host.  login answers the user.login it posts when it holds no
\* token, resp answers its host.create.
create_host(st, hostname, ip_address, group_id, interface_type, interface_port, login, resp) ==
    LET a == ensure_token(st, login)
        st1 == [token |-> a.token, calls |-> a.calls]
        st2 == Post(st1, create_host_payload(st1.token, hostname, ip_address, group_id,
                                             interface_type, interface_port), resp)
    IN  IF ~a.ret.value THEN End(st1, Returned(AuthenticationFailed))
        ELSE End(st2, Returned(create_host_result(hostname, interface_type, resp)))

\* The loop of create_multiple_hosts from its i-th address on (i counts from 1).
RECURSIVE create_multiple_hosts_failfast(_, _, _, _, _)
create_multiple_hosts_failfast(st, a, i, results, answers) ==
    IF i > Len(a.ip_list) THEN End(st, Returned(results))
    ELSE LET ip_clean == Strip(a.ip_list[i])
             hostname == IF a.use_ip_as_hostname THEN ip_clean
                         ELSE a.base_hostname \o <<"-">> \o Format02d(i)
             r == create_host(st, hostname, ip_clean, a.group_id, a.interface_type,
                              a.interface_port, answers[i].login, answers[i].resp)
             record == [hostname |-> hostname, ip |-> ip_clean,
                        success |-> r.ret.value[1], message |-> r.ret.value[2]]
         IN  IF ~r.ret.value[1] /\ Len(r.calls) > Len(st.calls)
                                /\ r.calls[Len(r.calls)].request.method = "host.create"
             THEN End([token |-> r.token, calls |-> r.calls],
                      Returned(Append(results, record)))
             ELSE create_multiple_hosts_failfast([token |-> r.token, calls |-> r.calls], a,
                                                 i + 1, Append(results, record), answers)

RECURSIVE create_multiple_hosts_loop(_, _, _, _, _)
create_multiple_hosts_loop(st, a, i, results, answers) ==
    IF i > Len(a.ip_list) THEN End(st, Returned(results))
    ELSE LET ip_clean == Strip(a.ip_list[i])
             hostname == IF a.use_ip_as_hostname THEN ip_clean
                         ELSE a.base_hostname \o <<"-">> \o Format02d(i)
             r == create_host(st, hostname, ip_clean, a.group_id, a.interface_type,
                              a.interface_port, answers[i].login, answers[i].resp)
             record == [hostname |-> hostname, ip |-> ip_clean,
                        success |-> r.ret.value[1], message |-> r.ret.value[2]]
         IN  create_multiple_hosts_loop([token |-> r.token, calls |-> r.calls], a, i + 1,
                                        Append(results, record), answers)

\* ZabbixAPI.create_multiple_hosts.  answers[i] answers the requests create_host
\* makes for the i-th address.
create_multiple_hosts_from_second(st, a, answers) ==
    create_multiple_hosts_loop(st, a, 2, <<>>, answers)

create_multiple_hosts(st, a, answers) ==
    create_multiple_hosts_loop(st, a, 1, <<>>, answers)

\* What get_host_groups and get_hosts_by_group return for a response to their request:
\* the remote's result, or the empty list.
list_result(resp) ==
    IF resp.raised THEN <<>>
    ELSE IF resp.status_code = 200
         THEN IF "result" \in DOMAIN resp.json THEN resp.json.result ELSE <<>>
         ELSE <<>>

\* ZabbixAPI.get_host_groups
get_host_groups(st, login, resp) ==
    LET a == ensure_token(st, login)
        st1 == [token |-> a.token, calls |-> a.calls]
        payload == [method |-> "hostgroup.get",
                    params |-> [output |-> <<"groupid", "name">>, sortfield |-> "name"],
                    auth |-> st1.token, id |-> 2]
    IN  IF ~a.ret.value THEN End(st1, Returned(<<>>))
        ELSE End(Post(st1, payload, resp), Returned(list_result(resp)))

\* ZabbixAPI.get_hosts_by_group
get_hosts_by_group(st, group_id, login, resp) ==
    LET a == ensure_token(st, login)
        st1 == [token |-> a.token, calls |-> a.calls]
        payload == [method |-> "host.get",
                    params |-> [output |-> <<"hostid", "host", "name", "status">>,
                                groupids |-> <<group_id>>,
                                selectInterfaces |-> <<"interfaceid", "ip", "dns", "port",
                                                       "type", "main">>,
                                sortfield |-> "name"],
                    auth |-> st1.token, id |-> 4]
    IN  IF ~a.ret.value THEN End(st1, Returned(<<>>))
        ELSE End(Post(st1, payload, resp), Returned(list_result(resp)))

\* The params of hostinterface.create: every scalar in its str form.
add_interface_params(host_id, interface_type, ip_address, port, is_main) ==
    LET interface_params == [hostid |-> host_id,
                             main |-> IF is_main THEN "1" ELSE "0",
                             type |-> StrOfInt(interface_type),
                             useip |-> "1", ip |-> ip_address, dns |-> "",
                             port |-> PortStr(port)]
    IN  IF StrOfInt(interface_type) = <<"2">>
        THEN interface_params @@ [details |-> SnmpDetails]
        ELSE IF StrOfInt(interface_type) = <<"3">>
        THEN interface_params @@ [details |-> CredentialDetails]
        ELSE IF StrOfInt(interface_type) = <<"4">>
        THEN interface_params @@ [details |-> CredentialDetails]
        ELSE interface_params

\* The (success, message) add_interface_to_host returns for a response.
add_interface_result(resp) ==
    IF resp.raised THEN <<FALSE, [fmt |-> "Exception: {str(e)}", e |-> "transport"]>>
    ELSE IF resp.status_code = 200
         THEN IF "result" \in DOMAIN resp.json
              THEN IF /\ "interfaceids" \in DOMAIN resp.json.result
                      /\ Len(resp.json.result.interfaceids) > 0
                   THEN <<TRUE, [fmt |-> "Interface added successfully"]>>
                   ELSE <<FALSE, [fmt |-> "Exception: {str(e)}", e |-> "KeyError"]>>
              ELSE LET error_msg == IF "error" \in DOMAIN resp.json
                                    THEN resp.json.error ELSE [unknown |-> TRUE]
                       error_data == IF "data" \in DOMAIN error_msg THEN error_msg.data
                                     ELSE IF "message" \in DOMAIN error_msg
                                     THEN error_msg.message ELSE "Unknown error"
                   IN  <<FALSE, [fmt |-> "Error: {error_data}", error_data |-> error_data]>>
         ELSE <<FALSE, [fmt |-> "HTTP error occurred"]>>

\* ZabbixAPI.add_interface_to_host
add_interface_to_host(st, host_id, interface_type, ip_address, port, is_main, login, resp) ==
    LET a == ensure_token(st, login)
        st1 == [token |-> a.token, calls |-> a.calls]
        payload == [method |-> "hostinterface.create",
                    params |-> add_interface_params(host_id, interface_type, ip_address,
                                                    port, is_main),
                    auth |-> st1.token, id |-> 5]
    IN  IF ~a.ret.value THEN End(st1, Returned(AuthenticationFailed))
        ELSE End(Post(st1, payload, resp), Returned(add_interface_result(resp)))

\* The (success, message) remove_interface_from_host returns for a response.
remove_interface_result(resp) ==
    IF resp.raised THEN <<FALSE, [fmt |-> "Exception: {str(e)}", e |-> "transport"]>>
    ELSE IF resp.status_code = 200
         THEN IF "result" \in DOMAIN resp.json
              THEN <<TRUE, [fmt |-> "Interface removed successfully"]>>
              ELSE <<FALSE, [fmt |-> "Error: {error_msg}",
                             error_msg |-> IF /\ "error" \in DOMAIN resp.json
                                              /\ "data" \in DOMAIN resp.json.error
                                           THEN resp.json.error.data
                                           ELSE "Unknown error"]>>
         ELSE <<FALSE, [fmt |-> "HTTP error occurred"]>>

\* ZabbixAPI.remove_interface_from_host
remove_interface_from_host(st, interface_id, login, resp) ==
    LET a == ensure_token(st, login)
        st1 == [token |-> a.token, calls |-> a.calls]
        payload == [method |-> "hostinterface.delete", params |-> <<interface_id>>,
                    auth |-> st1.token, id |-> 6]
    IN  IF ~a.ret.value THEN End(st1, Returned(AuthenticationFailed))
        ELSE End(Post(st1, payload, resp), Returned(remove_interface_result(resp)))

-----------------------------------------------------------------------------
(* mass_update_interfaces.  The host and interface records are the dicts of  *)
(* the host.get result; reading a key a record lacks raises KeyError, which  *)
(* nothing in mass_update_interfaces catches.                                *)

Has(d, k) == k \in DOMAIN d

Value(v) == [raised |-> FALSE, value |-> v]
KeyError == [raised |-> TRUE]

\* int(iface['type']) for the type codes the remote sends.
IntOfStr(s) == CASE s = "1" -> 1 [] s = "2" -> 2 [] s = "3" -> 3 [] s = "4" -> 4

\* Python truthiness of ip_address: None and the empty str are falsy.
IpFalsy(ip) == ip = None \/ ip = ""

\* for interface in interfaces: if interface['type'] == '1': ip_address = interface['ip']; break
RECURSIVE agent_ip(_, _)
agent_ip(interfaces, j) ==
    IF j > Len(interfaces) THEN Value(None)
    ELSE IF ~Has(interfaces[j], "type") THEN KeyError
    ELSE IF interfaces[j].type = "1"
         THEN IF Has(interfaces[j], "ip") THEN Value(interfaces[j].ip) ELSE KeyError
         ELSE agent_ip(interfaces, j + 1)

\* The address mass_update_interfaces sources for a new interface.
source_ip_first(interfaces) ==
    IF interfaces # <<>>
    THEN IF Has(interfaces[1], "ip") THEN Value(interfaces[1].ip) ELSE KeyError
    ELSE Value(None)

source_ip(interfaces) ==
    LET agent == agent_ip(interfaces, 1)
    IN  IF agent.raised THEN KeyError
        ELSE IF IpFalsy(agent.value) /\ interfaces # <<>>
             THEN IF Has(interfaces[1], "ip") THEN Value(interfaces[1].ip) ELSE KeyError
             ELSE agent

\* any(int(iface['type']) == interface_type for iface in interfaces), from the j-th on
RECURSIVE interface_exists(_, _, _)
interface_exists(interfaces, interface_type, j) ==
    IF j > Len(interfaces) THEN Value(FALSE)
    ELSE IF ~Has(interfaces[j], "type") THEN KeyError
    ELSE IF IntOfStr(interfaces[j].type) = interface_type THEN Value(TRUE)
    ELSE interface_exists(interfaces, interface_type, j + 1)

\* any(int(iface['type']) == interface_type and iface['main'] == '1' for iface in interfaces)
RECURSIVE has_main_interface(_, _, _)
has_main_interface(interfaces, interface_type, j) ==
    IF j > Len(interfaces) THEN Value(FALSE)
    ELSE IF ~Has(interfaces[j], "type") THEN KeyError
    ELSE IF IntOfStr(interfaces[j].type) = interface_type
         THEN IF ~Has(interfaces[j], "main") THEN KeyError
              ELSE IF interfaces[j].main = "1" THEN Value(TRUE)
              ELSE has_main_interface(interfaces, interface_type, j + 1)
         ELSE has_main_interface(interfaces, interface_type, j + 1)

\* [iface for iface in interfaces if int(iface['type']) == interface_type and iface['main'] == '0']
RECURSIVE interfaces_to_remove_any_flag(_, _, _)
interfaces_to_remove_any_flag(interfaces, interface_type, j) ==
    IF j > Len(interfaces) THEN Value(<<>>)
    ELSE IF ~Has(interfaces[j], "type") THEN KeyError
    ELSE LET rest == interfaces_to_remove_any_flag(interfaces, interface_type, j + 1)
             keep == IntOfStr(interfaces[j].type) = interface_type
         IN  IF rest.raised THEN KeyError
             ELSE Value(IF keep THEN <<interfaces[j]>> \o rest.value ELSE rest.value)

RECURSIVE interfaces_to_remove(_, _, _)
interfaces_to_remove(interfaces, interface_type, j) ==
    IF j > Len(interfaces) THEN Value(<<>>)
    ELSE IF ~Has(interfaces[j], "type") THEN KeyError
    ELSE IF IntOfStr(interfaces[j].type) = interface_type /\ ~Has(interfaces[j], "main")
         THEN KeyError
    ELSE LET rest == interfaces_to_remove(interfaces, interface_type, j + 1)
             keep == IntOfStr(interfaces[j].type) = interface_type /\ interfaces[j].main = "0"
         IN  IF rest.raised THEN KeyError
             ELSE Value(IF keep THEN <<interfaces[j]>> \o rest.value ELSE rest.value)

\* What one pass of the loop body gives: the client state, the records appended, and
\* whether the pass raised.
Pass(st, results) == [raised |-> FALSE, token |-> st.token, calls |-> st.calls,
                      results |-> results]
PassRaised(st) == [raised |-> TRUE, token |-> st.token, calls |-> st.calls,
                   results |-> <<>>]

mass_record(host_name, operation, interface_type, ip, success, message) ==
    [host_name |-> host_name, operation |-> operation, interface_type |-> interface_type,
     ip |-> ip, success |-> success, message |-> message]

\* The 'add' branch for one host.
mass_add(st, host_id, host_name, interfaces, interface_type, port, script) ==
    LET src == source_ip(interfaces)
        exists == interface_exists(interfaces, interface_type, 1)
        has_main == has_main_interface(interfaces, interface_type, 1)
    IN  IF src.raised THEN PassRaised(st)
        ELSE IF ~IpFalsy(src.value)
        THEN IF exists.raised THEN PassRaised(st)
             ELSE IF ~exists.value
             THEN IF has_main.raised THEN PassRaised(st)
                  ELSE LET is_main == ~has_main.value
                           r == add_interface_to_host(st, host_id, interface_type, src.value,
                                                      port, is_main, Timeout, script[1])
                       IN  Pass(r, <<mass_record(host_name, "add", interface_type, src.value,
                                                 r.ret.value[1], r.ret.value[2])>>)
             ELSE Pass(st, <<mass_record(host_name, "add", interface_type, src.value, FALSE,
                                         [fmt |-> "Interface type already exists"])>>)
        ELSE Pass(st, <<mass_record(host_name, "add", interface_type, "N/A", FALSE,
                                    [fmt |-> "No IP address found"])>>)

\* for interface in interfaces_to_remove: ..., from the j-th candidate on
RECURSIVE mass_remove_loop(_, _, _, _, _, _, _)
mass_remove_loop(st, host_name, interface_type, candidates, j, results, script) ==
    IF j > Len(candidates) THEN Pass(st, results)
    ELSE IF ~Has(candidates[j], "interfaceid") THEN PassRaised(st)
    ELSE LET r == remove_interface_from_host(st, candidates[j].interfaceid, Timeout,
                                             script[j])
         IN  IF ~Has(candidates[j], "ip") THEN PassRaised(r)
             ELSE mass_remove_loop(r, host_name, interface_type, candidates, j + 1,
                                   Append(results,
                                          mass_record(host_name, "remove", interface_type,
                                                      candidates[j].ip, r.ret.value[1],
                                                      r.ret.value[2])),
                                   script)

\* The 'remove' branch for one host.
mass_remove_silent(st, host_name, interfaces, interface_type, script) ==
    LET candidates == interfaces_to_remove(interfaces, interface_type, 1)
    IN  IF candidates.raised THEN PassRaised(st)
        ELSE mass_remove_loop(st, host_name, interface_type, candidates.value, 1, <<>>,
                              script)

mass_remove(st, host_name, interfaces, interface_type, script) ==
    LET candidates == interfaces_to_remove(interfaces, interface_type, 1)
    IN  IF candidates.raised THEN PassRaised(st)
        ELSE IF candidates.value # <<>>
        THEN mass_remove_loop(st, host_name, interface_type, candidates.value, 1, <<>>,
                              script)
        ELSE Pass(st, <<mass_record(host_name, "remove", interface_type, "N/A", FALSE,
                                    [fmt |-> "No removable interface found"])>>)

\* The body of "for host in hosts".
mass_update_host(st, host, interface_type, port, operation, script) ==
    IF ~Has(host, "hostid") \/ ~Has(host, "name") THEN PassRaised(st)
    ELSE LET interfaces == IF Has(host, "interfaces") THEN host.interfaces ELSE <<>>
         IN  IF operation = "add"
             THEN mass_add(st, host.hostid, host.name, interfaces, interface_type, port,
                           script)
             ELSE IF operation = "remove"
             THEN mass_remove(st, host.name, interfaces, interface_type, script)
             ELSE Pass(st, <<>>)

\* The number of requests the loop body posts for a host: the length of its script.
host_requests(host, interface_type, operation) ==
    LET interfaces == IF Has(host, "interfaces") THEN host.interfaces ELSE <<>>
        src == source_ip(interfaces)
        exists == interface_exists(interfaces, interface_type, 1)
        candidates == interfaces_to_remove(interfaces, interface_type, 1)
    IN  IF operation = "add"
        THEN IF ~src.raised /\ ~IpFalsy(src.value) /\ ~exists.raised /\ ~exists.value
             THEN 1 ELSE 0
        ELSE IF operation = "remove" /\ ~candidates.raised THEN Len(candidates.value)
        ELSE 0

\* "for host in hosts" from the i-th host on.
RECURSIVE mass_update_loop(_, _, _, _, _, _)
mass_update_loop(st, a, hosts, i, results, scripts) ==
    IF i > Len(hosts) THEN End(st, Returned(results))
    ELSE LET p == mass_update_host(st, hosts[i], a.interface_type, a.port, a.operation,
                                   scripts[i])
             st1 == [token |-> p.token, calls |-> p.calls]
         IN  IF p.raised THEN End(st1, Raised("KeyError"))
             ELSE mass_update_loop(st1, a, hosts, i + 1, results \o p.results, scripts)

\* ZabbixAPI.mass_update_interfaces.  login and listing answer the requests of
\* get_hosts_by_group; scripts[i] answers the requests made for the i-th host.
mass_update_interfaces(st, a, login, listing, scripts) ==
    LET g == get_hosts_by_group(st, a.group_id, login, listing)
    IN  mass_update_loop([token |-> g.token, calls |-> g.calls], a, g.ret.value, 1, <<>>,
                         scripts)

-----------------------------------------------------------------------------
(* Actions *)

NewHostIds == {"10501"}

HostCreateResponses ==
    Failures \cup {Ok([result |-> [hostids |-> <<h>>]]) : h \in NewHostIds}

\* Addresses as an operator may type them.
Addresses == {<<" ", "1", ".", "1", "\t">>, <<"2">>}

BaseNames == {<<"w", "e", "b">>}

GroupIds == {"7"}

InterfaceTypes == 1..4

Ports == {NoPort, StrPort(<<>>), StrPort(<<"8", "0">>), IntPort(0), IntPort(8080)}

SeqsUpTo(S, n) == UNION {[1..k -> S] : k \in 0..n}

\* The remote's host records.  The k-th host of a listing and its j-th interface
\* carry ids, a name and an address of their own.
HostIdOf(k) == "1008" \o Digit(k)
HostNameOf(k) == "host-" \o Digit(k)
InterfaceIdOf(k, j) == "3" \o Digit(k) \o Digit(j)
IpOf(k, j) == "10.0." \o Digit(k) \o "." \o Digit(j)

RemoteTypes == {"1", "2"}

\* An interface of the remote: its type code, its main flag, and whether it is
\* addressed by ip or by dns (and then has an empty ip).
InterfaceShapes == [type : RemoteTypes, main : {"0", "1"}, useip : BOOLEAN]

MkInterface(k, j, sh) ==
    [interfaceid |-> InterfaceIdOf(k, j),
     ip |-> IF sh.useip THEN IpOf(k, j) ELSE "",
     dns |-> IF sh.useip THEN "" ELSE "node.example",
     port |-> "10050", type |-> sh.type, main |-> sh.main]

MkHost(k, shapes) ==
    [hostid |-> HostIdOf(k), host |-> HostNameOf(k), name |-> HostNameOf(k),
     status |-> "0",
     interfaces |-> [j \in 1..Len(shapes) |-> MkInterface(k, j, shapes[j])]]

\* The listings of n hosts with at most budget interfaces in all, as shapes.
RECURSIVE ShapeListings(_, _)
ShapeListings(n, budget) ==
    IF n = 0 THEN {<<>>}
    ELSE UNION {{<<h>> \o rest : rest \in ShapeListings(n - 1, budget - Len(h))} :
                h \in SeqsUpTo(InterfaceShapes, budget)}

\* The results of host.get that a remote conforming to the Zabbix API sends: every
\* record carries the fields the request selects.
Listings ==
    UNION {{[k \in 1..n |-> MkHost(k, l[k])] : l \in ShapeListings(n, MaxIfaces)} :
           n \in 0..MaxHosts}

HostGetResponses == Failures \cup {Ok([result |-> l]) : l \in Listings}

\* A dict without one of its keys.
DropKey(d, k) == [x \in DOMAIN d \ {k} |-> d[x]]

\* A listing in which one host record or one interface record lacks a field.
Mangled(l) ==
    {[l EXCEPT ![k] = DropKey(@, f)] :
        k \in 1..Len(l), f \in {"hostid", "name", "interfaces"}}
    \cup UNION {{[l EXCEPT ![k].interfaces[j] = DropKey(@, f)] :
                   j \in 1..Len(l[k].interfaces),
                   f \in {"interfaceid", "ip", "type", "main"}} :
                k \in 1..Len(l)}

\* The results of host.get of a remote that may also leave fields out: the complete
\* listings, and the listings of one host with at most one interface, with a field
\* left out.
AnyListings ==
    Listings
    \cup UNION {Mangled(<<MkHost(1, shapes)>>) : shapes \in SeqsUpTo(InterfaceShapes, 1)}

AnyHostGetResponses == Failures \cup {Ok([result |-> l]) : l \in AnyListings}

\* host.create answers of such a remote: the result may name no host id.
AnyHostCreateResponses == HostCreateResponses \cup {Ok([result |-> [hostids |-> <<>>]])}

HostGroups == {<<>>, <<[groupid |-> "7", name |-> "Linux servers"]>>}

HostGroupGetResponses == Failures \cup {Ok([result |-> g]) : g \in HostGroups}

InterfaceResponses == Failures \cup {Ok([result |-> [interfaceids |-> <<"30501">>]])}

\* The interface types asked of mass_update_interfaces: the two the remote's hosts
\* carry and one they do not.
MassTypes == 1..3

MassPorts == {StrPort(<<"1", "6", "1">>)}

Operations == {"add", "remove"}

\* The answers to the interface requests of a mass update: each one fails or succeeds
\* (the kinds of failure are told apart by AddInterfaceToHost and
\* RemoveInterfaceFromHost).
MassInterfaceResponses == {r \in InterfaceResponses : r # HttpError /\ r # ErrorBody}

\* The answers to the requests made for each host of a listing.
RECURSIVE ScriptsFor(_, _, _)
ScriptsFor(hosts, interface_type, operation) ==
    IF hosts = <<>> THEN {<<>>}
    ELSE {<<h>> \o t :
            h \in [1..host_requests(Head(hosts), interface_type, operation)
                     -> MassInterfaceResponses],
            t \in ScriptsFor(Tail(hosts), interface_type, operation)}

\* Whether authenticate takes a response for a successful login.
Accepted(login) ==
    ~login.raised /\ login.status_code = 200 /\ "result" \in DOMAIN login.json

\* The answers a method may get to its user.login and to the request proper.  With a
\* token held no login is made, and after a failed login no request: the answer that
\* is not asked for is fixed, as it changes nothing.
Answers(responses) ==
    IF TokenFalsy(auth_token)
    THEN {[login |-> l, resp |-> r] :
            l \in {x \in LoginResponses : Accepted(x)}, r \in responses}
         \cup {[login |-> l, resp |-> Timeout] :
                 l \in {x \in LoginResponses : ~Accepted(x)}}
    ELSE {[login |-> Timeout, resp |-> r] : r \in responses}

NoOp == [name |-> "none"]

Init ==
    /\ auth_token = None
    /\ pc = "idle"
    /\ op = NoOp
    /\ calls = <<>>
    /\ ret = Returned(None)

Finish(o, r) ==
    /\ pc' = "returned"
    /\ op' = o
    /\ auth_token' = r.token
    /\ calls' = r.calls
    /\ ret' = r.ret

Start == [token |-> auth_token, calls |-> <<>>]

\* /api/test_connection: zabbix_api.authenticate()
Authenticate ==
    /\ pc = "idle"
    /\ \E resp \in LoginResponses :
          Finish([name |-> "authenticate"], authenticate(Start, resp))

\* A direct call of ZabbixAPI.create_host, against a remote whose host.create answers
\* are drawn from responses.
CreateHost(responses) ==
    /\ pc = "idle"
    /\ \E hostname \in {Strip(x) : x \in Addresses}, group_id \in GroupIds,
          interface_type \in InterfaceTypes, interface_port \in Ports,
          ans \in Answers(responses) :
          Finish([name |-> "create_host", hostname |-> hostname, ip_address |-> hostname,
                  group_id |-> group_id, interface_type |-> interface_type,
                  interface_port |-> interface_port],
                 create_host(Start, hostname, hostname, group_id, interface_type,
                             interface_port, ans.login, ans.resp))

\* A direct call of ZabbixAPI.add_interface_to_host.
AddInterfaceToHost ==
    /\ pc = "idle"
    /\ \E interface_type \in InterfaceTypes, port \in MassPorts, is_main \in BOOLEAN,
          ans \in Answers(InterfaceResponses) :
          Finish([name |-> "add_interface_to_host", host_id |-> HostIdOf(1),
                  interface_type |-> interface_type, ip_address |-> IpOf(1, 1),
                  port |-> port, is_main |-> is_main],
                 add_interface_to_host(Start, HostIdOf(1), interface_type, IpOf(1, 1), port,
                                       is_main, ans.login, ans.resp))

\* A direct call of ZabbixAPI.remove_interface_from_host.
RemoveInterfaceFromHost ==
    /\ pc = "idle"
    /\ \E interface_id \in {InterfaceIdOf(1, 1), InterfaceIdOf(1, 2)},
          ans \in Answers(InterfaceResponses) :
          Finish([name |-> "remove_interface_from_host", interface_id |-> interface_id],
                 remove_interface_from_host(Start, interface_id, ans.login, ans.resp))

\* The 'summary' of the replies of /api/create_hosts and /api/mass_update_interfaces.
summary_all_successful(results) ==
    [total |-> Len(results),
     successful |-> Len(results),
     failed |-> Len(SelectSeq(results, LAMBDA r : ~r.success))]

summary(results) ==
    [total |-> Len(results),
     successful |-> Len(SelectSeq(results, LAMBDA r : r.success)),
     failed |-> Len(SelectSeq(results, LAMBDA r : ~r.success))]

\* jsonify({'success': True, 'results': results, 'summary': {...}}): the results of a
\* batch operation that returned, with their summary.
WithSummary(r) ==
    IF r.ret.raised THEN r
    ELSE [r EXCEPT !.ret = [raised |-> FALSE, value |-> r.ret.value,
                            summary |-> summary(r.ret.value)]]

BatchPorts == {NoPort, StrPort(<<"8", "0">>)}

\* /api/create_hosts: zabbix_api.create_multiple_hosts(...), against a remote whose
\* host.create answers are drawn from responses.
CreateMultipleHosts(responses) ==
    /\ pc = "idle"
    /\ \E base_hostname \in BaseNames, ip_list \in SeqsUpTo(Addresses, MaxAddrs),
          group_id \in GroupIds, use_ip_as_hostname \in BOOLEAN,
          interface_type \in InterfaceTypes, interface_port \in BatchPorts :
       \E answers \in [1..Len(ip_list) -> Answers(responses)] :
          LET a == [name |-> "create_multiple_hosts", base_hostname |-> base_hostname,
                    ip_list |-> ip_list, group_id |-> group_id,
                    use_ip_as_hostname |-> use_ip_as_hostname,
                    interface_type |-> interface_type, interface_port |-> interface_port]
          IN  Finish(a, WithSummary(create_multiple_hosts(Start, a, answers)))

\* /api/groups: zabbix_api.get_host_groups()
GetHostGroups ==
    /\ pc = "idle"
    /\ \E ans \in Answers(HostGroupGetResponses) :
          Finish([name |-> "get_host_groups"],
                 get_host_groups(Start, ans.login, ans.resp))

\* /api/hosts_by_group/<group_id>: zabbix_api.get_hosts_by_group(group_id)
GetHostsByGroup ==
    /\ pc = "idle"
    /\ \E group_id \in GroupIds, ans \in Answers(HostGetResponses) :
          Finish([name |-> "get_hosts_by_group", group_id |-> group_id],
                 get_hosts_by_group(Start, group_id, ans.login, ans.resp))

\* /api/mass_update_interfaces: zabbix_api.mass_update_interfaces(...), against a
\* remote whose host.get answers are drawn from responses.
MassUpdateInterfaces(responses) ==
    /\ pc = "idle"
    /\ \E group_id \in GroupIds, interface_type \in MassTypes, port \in MassPorts,
          operation \in Operations, ans \in Answers(responses) :
          LET a == [name |-> "mass_update_interfaces", group_id |-> group_id,
                    interface_type |-> interface_type, port |-> port,
                    operation |-> operation]
              hosts == get_hosts_by_group(Start, group_id, ans.login, ans.resp).ret.value
          IN  \E scripts \in ScriptsFor(hosts, interface_type, operation) :
                 Finish(a, WithSummary(mass_update_interfaces(Start, a, ans.login, ans.resp,
                                                              scripts)))

\* The request layer has serialised the outcome; the client waits for the next call.
Respond ==
    /\ pc = "returned"
    /\ pc' = "idle"
    /\ op' = NoOp
    /\ calls' = <<>>
    /\ ret' = Returned(None)
    /\ UNCHANGED auth_token

Next ==
    \/ Authenticate
    \/ GetHostGroups
    \/ GetHostsByGroup
    \/ CreateHost(HostCreateResponses)
    \/ AddInterfaceToHost
    \/ RemoveInterfaceFromHost
    \/ CreateMultipleHosts(HostCreateResponses)
    \/ MassUpdateInterfaces(HostGetResponses)
    \/ Respond

\* The client against a remote that conforms to the Zabbix API: a request may fail
\* (transport, status, error object), and a result carries the fields asked for.
Spec == Init /\ [][Next]_vars

NextAnyRemote ==
    \/ Authenticate
    \/ GetHostGroups
    \/ GetHostsByGroup
    \/ CreateHost(AnyHostCreateResponses)
    \/ AddInterfaceToHost
    \/ RemoveInterfaceFromHost
    \/ CreateMultipleHosts(AnyHostCreateResponses)
    \/ MassUpdateInterfaces(AnyHostGetResponses)
    \/ Respond

\* The client against a remote whose results may also lack expected fields.
SpecAnyRemote == Init /\ [][NextAnyRemote]_vars

\* The request layer has answered; what /api/groups last gave stays on record until
\* the next call returns, so that two calls in a row can be compared.
RespondListing ==
    /\ pc = "returned"
    /\ pc' = "idle"
    /\ IF op.name = "get_host_groups"
       THEN UNCHANGED <<op, calls, ret>>
       ELSE op' = NoOp /\ calls' = <<>> /\ ret' = Returned(None)
    /\ UNCHANGED auth_token

NextListing ==
    \/ Authenticate
    \/ GetHostGroups
    \/ GetHostsByGroup
    \/ RespondListing

\* The read operations alone, with the last group listing on record.
SpecListing == Init /\ [][NextListing]_vars

-----------------------------------------------------------------------------
(* Properties *)

\* core is raw without its leading and trailing whitespace.
IsTrimOf(core, raw) ==
    /\ core = <<>> \/ (core[1] \notin Whitespace /\ core[Len(core)] \notin Whitespace)
    /\ \E lead \in 0..Len(raw) :
          /\ lead + Len(core) <= Len(raw)
          /\ \A k \in 1..Len(raw) :
                IF k > lead /\ k <= lead + Len(core) THEN raw[k] = core[k - lead]
                ELSE raw[k] \in Whitespace

ReturnedFrom(name) == pc = "returned" /\ op.name = name

\* The exchanges of the last call whose request has the given method.
CallsOf(method) == SelectSeq(calls, LAMBDA c : c.request.method = method)

\* Whether a response is a failure of the request: a transport exception, a status
\* other than 200, or a body that carries no result.
Failed(resp) == resp.raised \/ resp.status_code # 200 \/ "result" \notin DOMAIN resp.json

\* C1: create_multiple_hosts returns one result record per input address, in input
\* order: the list has the length of the address list and its i-th record carries the
\* i-th address (trimmed), whatever succeeded and whatever failed.
C1_OneResultPerAddress ==
    ReturnedFrom("create_multiple_hosts") =>
        /\ ~ret.raised
        /\ Len(ret.value) = Len(op.ip_list)
        /\ \A i \in 1..Len(op.ip_list) : IsTrimOf(ret.value[i].ip, op.ip_list[i])

\* A batch of two different addresses whose first item failed and whose second succeeded.
C1_Witness ==
    /\ ReturnedFrom("create_multiple_hosts")
    /\ Len(op.ip_list) = 2
    /\ op.ip_list[1] # op.ip_list[2]
    /\ ~ret.value[1].success
    /\ ret.value[2].success

\* The items of the batch, up to the j-th, for which host.create was posted: those
\* whose result is not the failed login's.
Attempted(j) ==
    {i \in 1..j : ret.value[i].message.fmt # "Authentication failed"}

\* C2: the batch is fail-open.  Once the create for an address has been posted and has
\* failed, host.create is posted for every later address too, each with the host name
\* and address of its own record, duplicates included: the host.create requests are,
\* in order, those of the attempted items.
C2_FailOpen ==
    ReturnedFrom("create_multiple_hosts") =>
        /\ Len(CallsOf("host.create")) = Cardinality(Attempted(Len(ret.value)))
        /\ \A j \in Attempted(Len(ret.value)) :
              LET c == CallsOf("host.create")[Cardinality(Attempted(j))]
              IN  /\ c.request.params.host = ret.value[j].hostname
                  /\ c.request.params.interfaces[1].ip = ret.value[j].ip
                  /\ ret.value[j].success = ~Failed(c.response)
        /\ \A k \in Attempted(Len(ret.value)) :
              ~ret.value[k].success =>
                 \A j \in (k + 1)..Len(op.ip_list) : j \in Attempted(Len(ret.value))

\* The same address twice: the first create timed out and the second was posted.
C2_Witness ==
    /\ ReturnedFrom("create_multiple_hosts")
    /\ Len(op.ip_list) = 2
    /\ op.ip_list[1] = op.ip_list[2]
    /\ Len(CallsOf("host.create")) = 2
    /\ CallsOf("host.create")[1].response = Timeout

\* i as two decimal digits, for i below 100.
TwoDigits(i) == <<Digit(i \div 10), Digit(i % 10)>>

\* C3: the host name of the i-th address is the trimmed address when
\* use_ip_as_hostname is set and otherwise base_hostname, "-" and i in two digits,
\* counted from 1 whether or not earlier items succeeded; the recorded address is the
\* trimmed address; and the posted host.create carries that name.
C3_NamingRule ==
    ReturnedFrom("create_multiple_hosts") =>
        /\ Len(ret.value) = Len(op.ip_list)
        /\ \A i \in 1..Len(ret.value) :
              /\ IsTrimOf(ret.value[i].ip, op.ip_list[i])
              /\ IF op.use_ip_as_hostname
                 THEN ret.value[i].hostname = ret.value[i].ip
                 ELSE ret.value[i].hostname = op.base_hostname \o <<"-">> \o TwoDigits(i)
        /\ \A c \in 1..Len(CallsOf("host.create")) :
              \E i \in 1..Len(ret.value) :
                 CallsOf("host.create")[c].request.params.host = ret.value[i].hostname

\* Sequential names with the first item failed: the second is still numbered 02.
C3_Witness ==
    /\ ReturnedFrom("create_multiple_hosts")
    /\ ~op.use_ip_as_hostname
    /\ Len(ret.value) = 2
    /\ ~ret.value[1].success
    /\ ret.value[2].hostname = op.base_hostname \o <<"-", "0", "2">>
    /\ op.ip_list[2] # ret.value[2].ip

\* C4 as stated: an accepted login returns True and leaves a non-empty token; a login
\* that ends in a transport error, a non-200 response or an error response returns
\* False and leaves the token unset.
C4_TokenUnsetAfterFailure ==
    ReturnedFrom("authenticate") =>
        IF ~Failed(calls[1].response)
        THEN ret.value = TRUE /\ auth_token # None /\ auth_token # ""
        ELSE ret.value = FALSE /\ auth_token = None

\* C4, amended: an accepted login returns True and the token is afterwards the
\* non-empty token the remote gave; a failed login returns False and leaves the token
\* as it was before the call: unset if unset, and still set if an earlier login had
\* succeeded.
C4_FailureKeepsToken ==
    [][(pc = "idle" /\ pc' = "returned" /\ op'.name = "authenticate") =>
          IF ~Failed(calls'[1].response)
          THEN /\ ret'.value = TRUE
               /\ auth_token' = calls'[1].response.json.result
               /\ auth_token' # None /\ auth_token' # ""
          ELSE /\ ret'.value = FALSE
               /\ auth_token' = auth_token]_vars

\* A login has failed while the client held the token of an earlier login.
C4_Witness ==
    /\ ReturnedFrom("authenticate")
    /\ Failed(calls[1].response)
    /\ ret.value = FALSE
    /\ auth_token \in Tokens

\* C5: no client operation raises past its boundary: every call ends by returning.
C5_NeverRaises == pc = "returned" => ~ret.raised

\* The listing the last call received from host.get: the empty list when the request
\* was not made or failed.
Listed ==
    IF CallsOf("host.get") = <<>> \/ Failed(CallsOf("host.get")[1].response) THEN <<>>
    ELSE CallsOf("host.get")[1].response.json.result

\* The type code the remote sends for an interface type.
TypeCode(t) == CASE t = 1 -> "1" [] t = 2 -> "2" [] t = 3 -> "3" [] t = 4 -> "4"

\* The positions in a host's interface list of the interfaces of type t.
OfType(host, t) == {j \in 1..Len(host.interfaces) : host.interfaces[j].type = TypeCode(t)}

\* The positions in the result list of the records of a host.
RecordsOf(host) == {i \in 1..Len(ret.value) : ret.value[i].host_name = host.name}

\* C6: 'add' on a host that already carries an interface of the requested type gives
\* that host a failure record "already exists" and posts no hostinterface.create for
\* it, whatever its other interfaces and their addresses are.
C6_AddSkipsExistingType ==
    (ReturnedFrom("mass_update_interfaces") /\ op.operation = "add" /\ ~ret.raised) =>
        \A k \in 1..Len(Listed) :
           OfType(Listed[k], op.interface_type) # {} =>
              /\ \E i \in RecordsOf(Listed[k]) :
                    /\ ~ret.value[i].success
                    /\ ret.value[i].message.fmt = "Interface type already exists"
              /\ \A c \in 1..Len(CallsOf("hostinterface.create")) :
                    CallsOf("hostinterface.create")[c].request.params.hostid
                        # Listed[k].hostid

\* C7: 'remove' posts hostinterface.delete only for interfaces of the listing that are
\* of the requested type and not flagged main; a host whose interfaces of the
\* requested type are all main gets exactly one record, the failure "No removable
\* interface found", and no delete for any of its interfaces.
C7_RemoveSparesMain ==
    (ReturnedFrom("mass_update_interfaces") /\ op.operation = "remove") =>
        /\ ~ret.raised
        /\ \A c \in 1..Len(CallsOf("hostinterface.delete")) :
              \E k \in 1..Len(Listed) : \E j \in OfType(Listed[k], op.interface_type) :
                 /\ Listed[k].interfaces[j].interfaceid
                       = CallsOf("hostinterface.delete")[c].request.params[1]
                 /\ Listed[k].interfaces[j].main # "1"
        /\ \A k \in 1..Len(Listed) :
              (/\ OfType(Listed[k], op.interface_type) # {}
               /\ \A j \in OfType(Listed[k], op.interface_type) :
                     Listed[k].interfaces[j].main = "1") =>
                 /\ Cardinality(RecordsOf(Listed[k])) = 1
                 /\ \A i \in RecordsOf(Listed[k]) :
                       /\ ~ret.value[i].success
                       /\ ret.value[i].message.fmt = "No removable interface found"
                 /\ \A c \in 1..Len(CallsOf("hostinterface.delete")) :
                       \A j \in 1..Len(Listed[k].interfaces) :
                          CallsOf("hostinterface.delete")[c].request.params[1]
                              # Listed[k].interfaces[j].interfaceid

\* One host has only a main interface of the requested type and is spared; a non-main
\* interface of that type of another host is deleted.
C7_Witness ==
    /\ ReturnedFrom("mass_update_interfaces")
    /\ op.operation = "remove"
    /\ Len(CallsOf("hostinterface.delete")) = 1
    /\ \E k \in 1..Len(Listed) :
          /\ OfType(Listed[k], op.interface_type) # {}
          /\ \A j \in OfType(Listed[k], op.interface_type) :
                Listed[k].interfaces[j].main = "1"
          /\ Cardinality(RecordsOf(Listed[k])) = 1

\* The positions of a host's non-main interfaces of type t: the removal candidates.
Removable(host, t) == {j \in OfType(host, t) : host.interfaces[j].main = "0"}

\* The number of records 'remove' owes a host: one per candidate, and one if it has none.
Owed(host, t) == IF Removable(host, t) = {} THEN 1 ELSE Cardinality(Removable(host, t))

\* The number of records owed to the first k hosts of the listing.
RECURSIVE OwedUpTo(_, _)
OwedUpTo(k, t) == IF k = 0 THEN 0 ELSE OwedUpTo(k - 1, t) + Owed(Listed[k], t)

\* C8: for 'add' the result list has one record per listed host, in listing order; for
\* 'remove' each host contributes, in listing order, one record per non-main interface
\* of the requested type, one for each delete posted and with that delete's outcome,
\* or a single failure record if it has no such interface.
C8_ResultCount ==
    ReturnedFrom("mass_update_interfaces") =>
        /\ ~ret.raised
        /\ op.operation = "add" =>
              /\ Len(ret.value) = Len(Listed)
              /\ \A k \in 1..Len(Listed) : ret.value[k].host_name = Listed[k].name
        /\ op.operation = "remove" =>
              /\ Len(ret.value) = OwedUpTo(Len(Listed), op.interface_type)
              /\ Len(CallsOf("hostinterface.delete"))
                    = Len(ret.value)
                      - Cardinality({k \in 1..Len(Listed) :
                                       Removable(Listed[k], op.interface_type) = {}})
              /\ \A k \in 1..Len(Listed) :
                    /\ RecordsOf(Listed[k])
                          = (OwedUpTo(k - 1, op.interface_type) + 1)
                            ..OwedUpTo(k, op.interface_type)
                    /\ Removable(Listed[k], op.interface_type) = {} =>
                          \A i \in RecordsOf(Listed[k]) :
                             ~ret.value[i].success /\ ret.value[i].ip = "N/A"
                    /\ Removable(Listed[k], op.interface_type) # {} =>
                          \A i \in RecordsOf(Listed[k]) :
                             \E j \in Removable(Listed[k], op.interface_type) :
                                ret.value[i].ip = Listed[k].interfaces[j].ip

\* A host with two removable interfaces: one removal failed, the other succeeded, and
\* both are recorded.
C8_Witness ==
    /\ ReturnedFrom("mass_update_interfaces")
    /\ op.operation = "remove"
    /\ Len(Listed) = 1
    /\ Len(ret.value) = 2
    /\ ~ret.value[1].success
    /\ ret.value[2].success

\* The label of an interface type.
Label(t) == CASE t = 1 -> "Agent" [] t = 2 -> "SNMP" [] t = 3 -> "IPMI" [] t = 4 -> "JMX"

\* Whether a message interpolates value v as its field f.
Includes(message, f, v) == f \in DOMAIN message /\ message[f] = v

\* C9 as stated: on success create_host returns (True, message) and the message
\* includes the id of the created host and the interface-type label; on a
\* remote-reported error it returns (False, message) with the remote error detail.
C9_MessageHasHostId ==
    (ReturnedFrom("create_host") /\ CallsOf("host.create") # <<>>) =>
        LET resp == CallsOf("host.create")[1].response
        IN  /\ ~Failed(resp) =>
                  /\ ret.value[1] = TRUE
                  /\ Includes(ret.value[2], "host_id", resp.json.result.hostids[1])
                  /\ Includes(ret.value[2], "interface_name", Label(op.interface_type))
            /\ (~resp.raised /\ resp.status_code = 200 /\ "error" \in DOMAIN resp.json) =>
                  /\ ret.value[1] = FALSE
                  /\ Includes(ret.value[2], "error_msg", resp.json.error.data)

\* C9, amended: on success create_host returns (True, message) and the message
\* includes the host name and the interface-type label, and nothing else: the id of
\* the created host is logged, not returned; on a remote-reported error it returns
\* (False, message) with the remote error detail.
C9_MessageHasNameAndLabel ==
    (ReturnedFrom("create_host") /\ CallsOf("host.create") # <<>>) =>
        LET resp == CallsOf("host.create")[1].response
        IN  /\ ~Failed(resp) =>
                  /\ ret.value[1] = TRUE
                  /\ Includes(ret.value[2], "hostname", op.hostname)
                  /\ Includes(ret.value[2], "interface_name", Label(op.interface_type))
                  /\ DOMAIN ret.value[2] = {"fmt", "hostname", "interface_name"}
            /\ (~resp.raised /\ resp.status_code = 200 /\ "error" \in DOMAIN resp.json) =>
                  /\ ret.value[1] = FALSE
                  /\ Includes(ret.value[2], "error_msg", resp.json.error.data)

\* An SNMP host has been created.
C9_Witness ==
    /\ ReturnedFrom("create_host")
    /\ op.interface_type = 2
    /\ CallsOf("host.create") # <<>>
    /\ ~Failed(CallsOf("host.create")[1].response)
    /\ ret.value[1] = TRUE

\* The default port of an interface type.
DefaultPortText(t) ==
    CASE t = 1 -> <<"1", "0", "0", "5", "0">>
      [] t = 2 -> <<"1", "6", "1">>
      [] t = 3 -> <<"6", "2", "3">>
      [] t = 4 -> <<"1", "2", "3", "4", "5">>

\* The text of a port argument that is not None.
PortText(p) == IF p.t = "int" THEN StrOfInt(p.v) ELSE p.v

\* The host.create request of create_host has one interface, with the port of the
\* argument when Supplied holds of it and the default of the type otherwise, and with
\* a details block exactly for SNMP, IPMI and JMX.
OneInterface(Supplied(_)) ==
    ReturnedFrom("create_host") =>
        \A c \in 1..Len(CallsOf("host.create")) :
           LET interfaces == CallsOf("host.create")[c].request.params.interfaces
           IN  /\ Len(interfaces) = 1
               /\ interfaces[1].type = op.interface_type
               /\ interfaces[1].port = IF Supplied(op.interface_port)
                                       THEN PortText(op.interface_port)
                                       ELSE DefaultPortText(op.interface_type)
               /\ ("details" \in DOMAIN interfaces[1]) <=> (op.interface_type \in {2, 3, 4})

\* C10 as stated: the port is the supplied port whenever one is supplied (the
\* argument is not None).
C10_PortWheneverSupplied == OneInterface(LAMBDA p : p.t # "none")

\* C10, amended: the port is the supplied port whenever a non-empty, non-zero port is
\* supplied; None, the empty str and 0 all give the default of the interface type.
C10_PortWhenTruthy ==
    OneInterface(LAMBDA p : (p.t = "str" /\ p.v # <<>>) \/ (p.t = "int" /\ p.v # 0))

\* An SNMP host is created on the explicit port 8080, given as a number.
C10_Witness ==
    /\ ReturnedFrom("create_host")
    /\ op.interface_type = 2
    /\ op.interface_port = IntPort(8080)
    /\ Len(CallsOf("host.create")) = 1
    /\ CallsOf("host.create")[1].request.params.interfaces[1].port = <<"8", "0", "8", "0">>

\* The answers of the remote in two calls agree: a request made in both got the same
\* response.
SameBehaviour(first, second) ==
    \A i \in 1..Len(first), j \in 1..Len(second) :
       first[i].request.method = second[j].request.method =>
          first[i].response = second[j].response

\* C11: a list operation called without a token first posts user.login; if that login
\* fails it returns the empty list without posting its request, and if its request
\* ends in a transport failure, a non-200 response or an error response it returns the
\* empty list; a get_host_groups call that follows a get_host_groups call and gets the
\* same answers from the remote returns an equal list.
C11_ListOrEmpty ==
    [][(pc = "idle" /\ pc' = "returned"
        /\ op'.name \in {"get_host_groups", "get_hosts_by_group"}) =>
          LET method == IF op'.name = "get_host_groups" THEN "hostgroup.get" ELSE "host.get"
              last == calls'[Len(calls')]
          IN  /\ ~ret'.raised
              /\ TokenFalsy(auth_token) => calls'[1].request.method = "user.login"
              /\ (TokenFalsy(auth_token) /\ Failed(calls'[1].response)) =>
                    ret'.value = <<>> /\ Len(calls') = 1
              /\ (last.request.method = method /\ Failed(last.response)) =>
                    ret'.value = <<>>
              /\ (last.request.method = method /\ ~Failed(last.response)) =>
                    ret'.value = last.response.json.result
              /\ (op.name = "get_host_groups" /\ op'.name = "get_host_groups"
                  /\ SameBehaviour(calls, calls')) => ret' = ret]_vars

\* A group listing made with the token of an earlier call has returned groups.
C11_Witness ==
    /\ ReturnedFrom("get_host_groups")
    /\ Len(calls) = 1
    /\ calls[1].request.method = "hostgroup.get"
    /\ ret.value # <<>>

\* C12: the summary of the reply to a batch of creations or to a mass update has total
\* equal to the number of results, successful equal to the number of results that
\* succeeded and failed to the number that did not, so that successful + failed = total
\* and every result is counted once.
C12_SummaryAccounts ==
    (/\ pc = "returned"
     /\ op.name \in {"create_multiple_hosts", "mass_update_interfaces"}
     /\ ~ret.raised) =>
        /\ ret.summary.total = Len(ret.value)
        /\ ret.summary.successful + ret.summary.failed = ret.summary.total
        /\ \A i \in 1..Len(ret.value) : ret.value[i].success \in BOOLEAN
        /\ ret.summary.successful
              = Cardinality({i \in 1..Len(ret.value) : ret.value[i].success})
        /\ ret.summary.failed
              = Cardinality({i \in 1..Len(ret.value) : ~ret.value[i].success})

\* A batch of two creations of which one succeeded and one failed.
C12_Witness ==
    /\ ReturnedFrom("create_multiple_hosts")
    /\ ret.summary.total = 2
    /\ ret.summary.successful = 1
    /\ ret.summary.failed = 1

\* The least of a non-empty set of positions.
FirstOf(S) == CHOOSE j \in S : \A i \in S : j <= i

\* The hostinterface.create requests posted for a host.
CreatesFor(host) ==
    SelectSeq(CallsOf("hostinterface.create"),
              LAMBDA c : c.request.params.hostid = host.hostid)

\* The host got the single record "No IP address found" and no hostinterface.create.
NoAddressFound(host) ==
    /\ CreatesFor(host) = <<>>
    /\ Cardinality(RecordsOf(host)) = 1
    /\ \A i \in RecordsOf(host) :
          ~ret.value[i].success /\ ret.value[i].message.fmt = "No IP address found"

\* The host got one hostinterface.create, with address ip, and one record, with ip.
AddedWith(host, ip) ==
    /\ Len(CreatesFor(host)) = 1
    /\ CreatesFor(host)[1].request.params.ip = ip
    /\ CreatesFor(host)[1].request.params.useip = "1"
    /\ Cardinality(RecordsOf(host)) = 1
    /\ \A i \in RecordsOf(host) : ret.value[i].ip = ip

\* C13 as stated: 'add' on a host lacking the requested type takes the address of the
\* host's Agent interface whenever it has one, otherwise that of its first interface;
\* a host without interfaces gets the failure "No IP address found" and no
\* hostinterface.create.
C13_AgentAddressWheneverPresent ==
    (ReturnedFrom("mass_update_interfaces") /\ op.operation = "add" /\ ~ret.raised) =>
        \A k \in 1..Len(Listed) :
           LET host == Listed[k]
           IN  OfType(host, op.interface_type) = {} =>
                  IF host.interfaces = <<>> THEN NoAddressFound(host)
                  ELSE IF OfType(host, 1) # {}
                  THEN AddedWith(host, host.interfaces[FirstOf(OfType(host, 1))].ip)
                  ELSE AddedWith(host, host.interfaces[1].ip)

\* C13, amended: 'add' on a host lacking the requested type takes the address of the
\* host's first Agent interface if that address is not empty, otherwise the address of
\* the host's first interface; if that is empty as well, or the host has no interface,
\* the host gets the failure "No IP address found" and no hostinterface.create.
C13_AgentAddressUnlessEmpty ==
    (ReturnedFrom("mass_update_interfaces") /\ op.operation = "add" /\ ~ret.raised) =>
        \A k \in 1..Len(Listed) :
           LET host == Listed[k]
               agent == IF OfType(host, 1) # {}
                        THEN host.interfaces[FirstOf(OfType(host, 1))].ip ELSE ""
               ip == IF agent # "" THEN agent
                     ELSE IF host.interfaces # <<>> THEN host.interfaces[1].ip ELSE ""
           IN  OfType(host, op.interface_type) = {} =>
                  IF ip = "" THEN NoAddressFound(host) ELSE AddedWith(host, ip)

\* A host whose second interface is its Agent interface gets an IPMI interface with the
\* address of the Agent interface, not of the first interface.
C13_Witness ==
    /\ ReturnedFrom("mass_update_interfaces")
    /\ op.operation = "add"
    /\ op.interface_type = 3
    /\ \E k \in 1..Len(Listed) :
          /\ Len(Listed[k].interfaces) = 2
          /\ Listed[k].interfaces[1].type = "2"
          /\ Listed[k].interfaces[1].ip # ""
          /\ Listed[k].interfaces[2].type = "1"
          /\ Listed[k].interfaces[2].ip # ""
          /\ AddedWith(Listed[k], Listed[k].interfaces[2].ip)

\* Every host of a listing has at most one main interface of each type.
OneMainPerType(listing) ==
    \A k \in 1..Len(listing) : \A n \in 1..4 :
       Cardinality({j \in OfType(listing[k], n) : listing[k].interfaces[j].main = "1"}) <= 1

\* The positions of the requests of a method the remote may have applied: those it
\* answered with a result, and any of the others but those it answered with an error.
MayApply(method) ==
    {A \in SUBSET (1..Len(CallsOf(method))) :
        \A c \in 1..Len(CallsOf(method)) :
           LET resp == CallsOf(method)[c].response
           IN  /\ ~Failed(resp) => c \in A
               /\ (~resp.raised /\ resp.status_code = 200 /\ Failed(resp)) => c \notin A}

\* The number of main interfaces of type n a listed host has once the remote has
\* applied the deletions D and the creations A of the call.
MainsAfter(host, n, A, D) ==
    Cardinality({j \in OfType(host, n) :
                   /\ host.interfaces[j].main = "1"
                   /\ \A d \in D : CallsOf("hostinterface.delete")[d].request.params[1]
                                      # host.interfaces[j].interfaceid})
    + Cardinality({c \in A :
                     LET params == CallsOf("hostinterface.create")[c].request.params
                     IN  /\ params.hostid = host.hostid
                         /\ params.type = <<TypeCode(n)>>
                         /\ params.main = "1"})

\* C14: one operation of a single client preserves "at most one main interface per
\* type and host", and so does any sequence of them: a host created by a batch has
\* at most one main interface of each type; if the hosts a mass update listed had at
\* most one, they have at most one after whatever part of its requests the remote
\* applied; and mass update marks a new interface main only for a host listed without
\* a main interface of that type.
C14_OneMainPreserved ==
    /\ ReturnedFrom("create_multiple_hosts") =>
          \A c \in 1..Len(CallsOf("host.create")) : \A n \in 1..4 :
             LET interfaces == CallsOf("host.create")[c].request.params.interfaces
             IN  Cardinality({j \in 1..Len(interfaces) :
                                interfaces[j].type = n /\ interfaces[j].main = 1}) <= 1
    /\ ReturnedFrom("mass_update_interfaces") =>
          /\ ~ret.raised
          /\ OneMainPerType(Listed) =>
                \A A \in MayApply("hostinterface.create") :
                   \A D \in MayApply("hostinterface.delete") :
                      \A k \in 1..Len(Listed) : \A n \in 1..4 :
                         MainsAfter(Listed[k], n, A, D) <= 1
          /\ \A c \in 1..Len(CallsOf("hostinterface.create")) :
                LET params == CallsOf("hostinterface.create")[c].request.params
                IN  params.main = "1" =>
                       \A k \in 1..Len(Listed) :
                          Listed[k].hostid = params.hostid =>
                             \A j \in 1..Len(Listed[k].interfaces) :
                                <<Listed[k].interfaces[j].type>> = params.type =>
                                   Listed[k].interfaces[j].main # "1"

\* A host with a main Agent interface has got an SNMP interface, marked main.
C14_Witness ==
    /\ ReturnedFrom("mass_update_interfaces")
    /\ op.operation = "add"
    /\ op.interface_type = 2
    /\ OneMainPerType(Listed)
    /\ \E k \in 1..Len(Listed) :
          /\ \E j \in OfType(Listed[k], 1) : Listed[k].interfaces[j].main = "1"
          /\ Len(CreatesFor(Listed[k])) = 1
          /\ CreatesFor(Listed[k])[1].request.params.main = "1"
          /\ ~Failed(CreatesFor(Listed[k])[1].response)

\* The operations that post one request of their own.
SingleRequest ==
    {"get_host_groups", "get_hosts_by_group", "create_host", "add_interface_to_host",
     "remove_interface_from_host"}

\* The requests of a mass update to create or delete interfaces.
InterfaceCalls == CallsOf("hostinterface.create") \o CallsOf("hostinterface.delete")

\* C15: a call made while the token is set leaves it set, and unless it is
\* authenticate() it leaves the same token and posts no user.login; each of its
\* requests is posted once, and a request that fails is reported as a failure: the
\* empty list or (False, message) of a single operation, a failed record of a batch,
\* and for a mass update the empty result if the listing fails and otherwise as many
\* successful records as interface requests that succeeded.
C15_StaysAuthenticated ==
    [][(pc = "idle" /\ pc' = "returned" /\ ~TokenFalsy(auth_token)) =>
          /\ ~TokenFalsy(auth_token')
          /\ op'.name # "authenticate" =>
                /\ auth_token' = auth_token
                /\ \A c \in 1..Len(calls') : calls'[c].request.method # "user.login"
                /\ \A c \in 1..Len(calls') : calls'[c].request.auth = auth_token
          /\ op'.name \in SingleRequest =>
                /\ Len(calls') = 1
                /\ Failed(calls'[1].response) =>
                      IF op'.name \in {"get_host_groups", "get_hosts_by_group"}
                      THEN ret'.value = <<>>
                      ELSE ret'.value[1] = FALSE
          /\ op'.name = "create_multiple_hosts" =>
                /\ Len(calls') = Len(op'.ip_list)
                /\ \A i \in 1..Len(calls') :
                      Failed(calls'[i].response) => ~ret'.value[i].success
          /\ op'.name = "mass_update_interfaces" =>
                /\ Len(CallsOf("host.get")') = 1
                /\ Failed(calls'[1].response) => Len(calls') = 1 /\ ret'.value = <<>>
                /\ \A c, d \in 1..Len(CallsOf("hostinterface.create")') :
                      c # d => CallsOf("hostinterface.create")'[c].request.params.hostid
                                  # CallsOf("hostinterface.create")'[d].request.params.hostid
                /\ \A c, d \in 1..Len(CallsOf("hostinterface.delete")') :
                      c # d => CallsOf("hostinterface.delete")'[c].request.params
                                  # CallsOf("hostinterface.delete")'[d].request.params
                /\ Cardinality({i \in 1..Len(ret'.value) : ret'.value[i].success})
                      = Cardinality({c \in 1..Len(InterfaceCalls') :
                                       ~Failed(InterfaceCalls'[c].response)})]_vars

\* A host.create posted with the token of an earlier login has failed: the call
\* returned (False, message), the token is still set and nothing else was posted.
C15_Witness ==
    /\ ReturnedFrom("create_host")
    /\ Len(calls) = 1
    /\ calls[1].request.method = "host.create"
    /\ Failed(calls[1].response)
    /\ ret.value[1] = FALSE
    /\ auth_token \in Tokens

\* C16: a call made while the token is unset posts user.login before any other
\* request and without an auth field, and posts any other request only after a login has succeeded and with
\* the token; an operation with one request of its own attempts one login and, if it
\* fails, posts nothing more and returns the empty list or (False, "Authentication
\* failed"); a batch in which every login is rejected posts one login per address and
\* no host.create, and returns one failure record per address.
C16_NoCallWithoutToken ==
    [][(pc = "idle" /\ pc' = "returned" /\ TokenFalsy(auth_token)) =>
          /\ calls' # <<>> => calls'[1].request.method = "user.login"
          /\ \A c \in 1..Len(calls') :
                IF calls'[c].request.method = "user.login"
                THEN "auth" \notin DOMAIN calls'[c].request
                ELSE /\ "auth" \in DOMAIN calls'[c].request
                     /\ ~TokenFalsy(calls'[c].request.auth)
                     /\ \E d \in 1..(c - 1) :
                           /\ calls'[d].request.method = "user.login"
                           /\ ~Failed(calls'[d].response)
                           /\ calls'[d].response.json.result = calls'[c].request.auth
          /\ op'.name \in SingleRequest =>
                /\ Len(CallsOf("user.login")') = 1
                /\ Failed(calls'[1].response) =>
                      /\ Len(calls') = 1
                      /\ TokenFalsy(auth_token')
                      /\ IF op'.name \in {"get_host_groups", "get_hosts_by_group"}
                         THEN ret'.value = <<>>
                         ELSE ret'.value = <<FALSE, [fmt |-> "Authentication failed"]>>
          /\ (/\ op'.name = "create_multiple_hosts"
              /\ \A c \in 1..Len(CallsOf("user.login")') :
                    Failed(CallsOf("user.login")'[c].response)) =>
                /\ Len(CallsOf("user.login")') = Len(op'.ip_list)
                /\ CallsOf("host.create")' = <<>>
                /\ Len(ret'.value) = Len(op'.ip_list)
                /\ \A i \in 1..Len(ret'.value) :
                      /\ ~ret'.value[i].success
                      /\ ret'.value[i].message = [fmt |-> "Authentication failed"]]_vars

\* A batch of two addresses against a remote that rejects both logins: two logins, no
\* host.create, two failure records.
C16_Witness ==
    /\ ReturnedFrom("create_multiple_hosts")
    /\ Len(op.ip_list) = 2
    /\ Len(CallsOf("user.login")) = 2
    /\ Len(calls) = 2
    /\ Len(ret.value) = 2
    /\ ~ret.value[1].success /\ ~ret.value[2].success
    /\ TokenFalsy(auth_token)

====
